---- MODULE Spec2Model ----
(***************************************************************************)
(* Model of src/server.js: the Shopify <-> HGI middleware.                 *)
(*                                                                         *)
(* The process is a single Node.js event loop.  A handler runs without     *)
(* interruption from the arrival of its event up to the first await of a   *)
(* pending I/O operation, and from the completion of that operation up to  *)
(* the next one; continuations of promises that are already settled run as *)
(* microtasks, before the next I/O callback.  One action of the model is   *)
(* therefore one such run-to-completion segment.                           *)
(*                                                                         *)
(* Time is counted in minutes (the code counts milliseconds).              *)
(***************************************************************************)
EXTENDS Integers, FiniteSets, Sequences, TLC

\* ------------------------------ bounds ---------------------------------
NumHandlers == 2      \* events delivered in one behaviour, each to its own handler
NumOrders   == 2      \* distinct Shopify order ids
MaxTime     == 2      \* last value of the clock
MaxHint     == 4      \* largest PasswordExpiration the ERP may answer
MaxRows     == 1      \* rows with a SKU in a list the ERP answers the sync job

Handlers == 1..NumHandlers
Orders   == 1..NumOrders

\* --------------------------- configuration -----------------------------
HGI_EMPRESA     == 1        \* Number(HGI_EMPRESA)
HGI_COMPROBANTE == "FV"

\* the three durations of getHgiToken, in minutes
DefaultValidity == 10       \* 10 * 60 * 1000
SafetyMargin    == 1        \* 60 * 1000
MinValidity     == 2        \* 2 * 60 * 1000

\* JavaScript null for the document reference; ERP document ids are >= 1
NullDoc == 0

\* ----------------------- JavaScript numbers ----------------------------
\* A number is either NaN or an integer.
NaN    == [nan |-> TRUE,  v |-> 0]
Num(n) == [nan |-> FALSE, v |-> n]

\* a < b of JavaScript: false as soon as one side is NaN
JsLess(a, b) == ~a.nan /\ ~b.nan /\ a.v < b.v

\* Math.max(a, b): NaN as soon as one side is NaN
JsMax(a, b) == IF a.nan \/ b.nan THEN NaN ELSE Num(IF a.v >= b.v THEN a.v ELSE b.v)

\* a - n for an integer n
JsMinus(a, n) == IF a.nan THEN NaN ELSE Num(a.v - n)

\* --------------------------- token cache -------------------------------
\* The expiry hints an authentication response may carry:
\* no PasswordExpiration field, one Date.parse() cannot read, or a date.
NoHint == [present |-> FALSE, t |-> NaN]
Hints  == {NoHint, [present |-> TRUE, t |-> NaN]}
            \cup {[present |-> TRUE, t |-> Num(n)] : n \in 0..MaxHint}

\* line 120: exp = expStr ? Date.parse(expStr) : Date.now() + 10 min
HintedExpiry(hint, t) == IF hint.present THEN hint.t ELSE Num(t + DefaultValidity)

\* line 121: hgiExpiresAt = Math.max(exp - 60 s, Date.now() + 2 min)
ExpiresAt(hint, t) ==
    JsMax(JsMinus(HintedExpiry(hint, t), SafetyMargin), Num(t + MinValidity))

\* line 91 with <= in place of <: a token is served at the instant it expires
TokenValidInclusive(tok, exp, t) == tok # 0 /\ ~exp.nan /\ t <= exp.v

\* line 91: if (hgiToken && now < hgiExpiresAt) return hgiToken
TokenValid(tok, exp, t) == tok # 0 /\ JsLess(Num(t), exp)

\* line 92 left out: no caller joins the request in flight
JoinsNever(ap) == FALSE

\* line 92: if (authPromise) return authPromise
JoinsInFlight(ap) == ap # 0

\* line 125 left out: the lock is kept when the request ends
FinallyKeeps(ap) == ap

\* line 125: finally { authPromise = null }
Finally(ap) == 0

\* The ways an Api/Autenticar request can end (lines 103-116).
AuthFailures == {"ErrorPayload", "NoJwtToken", "RequestFailed"}

\* --------------------------- mapping store -----------------------------
\* mapStore.orders is a function from the order ids it holds to mappings.
EmptyOrders == [o \in {} |-> 0]

\* line 304 skipped when the answer of Crear gave no id
PutUnlessNull(store, o, m) ==
    IF m.documento = NullDoc THEN store
    ELSE [x \in DOMAIN store \cup {o} |-> IF x = o THEN m ELSE store[x]]

\* mapStore.orders[orderId] = mapping
Put(store, o, m) == [x \in DOMAIN store \cup {o} |-> IF x = o THEN m ELSE store[x]]

\* JSON text, as far as map.json needs it: a value is null, a number or a
\* string, and the "orders" object is a function from its keys to objects.
JsonNull == <<"null">>
JsonNumber(n) == <<"number", n>>
JsonString(str) == <<"string", str>>

\* line 175: JSON.stringify of one mapping; documento is null or an id
StringifyMapping(m) ==
    [empresa     |-> JsonNumber(m.empresa),
     comprobante |-> JsonString(m.comprobante),
     documento   |-> IF m.documento = NullDoc THEN JsonNull
                                              ELSE JsonNumber(m.documento)]

\* line 175: JSON.stringify(mapStore, null, 2)
Stringify(store) == [o \in DOMAIN store |-> StringifyMapping(store[o])]

\* line 165: JSON.parse of one value
ParseValue(j) == IF j = JsonNull THEN NullDoc ELSE j[2]

\* line 165: JSON.parse(data)
Parse(text) ==
    [o \in DOMAIN text |-> [empresa     |-> ParseValue(text[o].empresa),
                            comprobante |-> ParseValue(text[o].comprobante),
                            documento   |-> ParseValue(text[o].documento)]]

\* loadMap never reads map.json: the store stays { orders: {} }
LoadMapKeepsEmpty(text) == EmptyOrders

\* lines 162-171: loadMap; a map.json that does not exist (ENOENT) is the
\* empty text and leaves mapStore = { orders: {} }
LoadMap(text) == Parse(text)

\* line 265 left out: createHgiDocFromOrder never returns 'already'
AlreadyMappedNever(store, o) == FALSE

\* line 265: if (mapStore.orders[orderId]) return 'already'
AlreadyMapped(store, o) == o \in DOMAIN store

\* lines 297-302: the mapping built from the answer of DocumentosContables/Crear;
\* doc is the id found in the answer, NullDoc when none is found
BuildMapping(doc) ==
    [empresa |-> HGI_EMPRESA, comprobante |-> HGI_COMPROBANTE, documento |-> doc]

\* lines 371-377 with Estado left at 1: the document is sent as active
VoidDocActive(m) ==
    [Empresa |-> m.empresa, IdComprobante |-> m.comprobante,
     Documento |-> m.documento, Estado |-> 1]

\* lines 371-377: the document sent to DocumentosContables/Actualizar
VoidDoc(m) ==
    [Empresa |-> m.empresa, IdComprobante |-> m.comprobante,
     Documento |-> m.documento, Estado |-> 2]

\* ------------------------------ events ---------------------------------
Kinds       == {"create", "updated", "paid", "cancelled"}
PaidKinds   == {"create", "updated", "paid"}
FinStatuses == {"paid", "PAID", "pending"}

\* String.prototype.toLowerCase on the statuses above
ToLowerCase(s) == IF s = "PAID" THEN "paid" ELSE s

\* lines 314, 329 without toLowerCase(): order.financial_status === 'paid'
IsPaidExact(fs) == fs = "paid"

\* lines 314, 329: (order.financial_status || '').toLowerCase() === 'paid'
IsPaid(fs) == ToLowerCase(fs) = "paid"

\* The guard each order handler puts before createHgiDocFromOrder
\* (lines 314, 329, 349); orders/paid does not read financial_status.
CallsCreate(kind, fs, store, o) ==
    CASE kind = "create"  -> IsPaid(fs)
      [] kind = "updated" -> IsPaid(fs) /\ ~(o \in DOMAIN store)
      [] kind = "paid"    -> ~(o \in DOMAIN store)
      [] OTHER            -> FALSE

\* The statuses an event of each kind is delivered with in the model: paid and
\* not paid for the two handlers that read financial_status, in the two
\* spellings of paid between them.
StatusesOf(kind) ==
    CASE kind = "create"  -> {"paid", "pending"}
      [] kind = "updated" -> {"PAID", "pending"}
      [] OTHER            -> {"paid"}

\* ------------------------------- state ---------------------------------
VARIABLES
    hgiToken,      \* line 85: 0 is null, n is the JwtToken of the n-th Autenticar request
    hgiExpiresAt,  \* line 86: a JavaScript number
    authPromise,   \* line 87: 0 is null, n is the promise of the n-th Autenticar request
    now,           \* Date.now()
    mapStore,      \* line 160: mapStore.orders
    disk,          \* the text of map.json
    flushed,       \* the mapStore.orders whose text the last finished writeFile wrote
    handlers,      \* the request each handler slot is serving, and where it is
    sent,          \* the requests answered by the last step, with their answers
    authInFlight,  \* the Autenticar requests sent and not yet answered
    authCalls,     \* number of Autenticar requests sent so far
    createCalls,   \* per order: number of DocumentosContables/Crear requests sent so far
    started,       \* number of events delivered so far
    orderCount     \* number of distinct order ids delivered so far

vars == <<hgiToken, hgiExpiresAt, authPromise, now, mapStore, disk, flushed, handlers, sent,
          authInFlight, authCalls, createCalls, started, orderCount>>

tokenVars == <<hgiToken, hgiExpiresAt, authPromise, authInFlight, authCalls>>

\* A request: the locals of its handler and, once answered, its response.
Idle ==
    [pc      |-> "idle",      \* idle, awaitAuth, awaitCreate, awaitSave, awaitVoid, done
     seq     |-> 0,           \* the event is the seq-th delivered
     kind    |-> "none",      \* the webhook topic
     order   |-> 0,           \* String(order.id)
     fs      |-> "",          \* order.financial_status
     status  |-> 0,           \* the HTTP status sent
     body    |-> "",          \* the text sent
     mapping |-> <<>>,        \* line 366: the mapping the cancellation read
     snap    |-> EmptyOrders, \* line 175: the mapStore.orders that saveMap serialises
     saved   |-> "",          \* how that writeFile ended
     token   |-> 0,           \* the token getHgiToken gave
     err     |-> "",          \* the error getHgiToken or axios threw
     joined  |-> 0,           \* the authPromise awaited, 0 when the token was cached
     hadMap  |-> FALSE,       \* whether the order was mapped when the event arrived
     doc     |-> 0,           \* the id the ERP gives the document this request creates
     voidReq |-> <<>>,        \* the documents this request sent to Actualizar
     hmac    |-> <<>>,        \* the X-Shopify-Hmac-Sha256 header, decoded
     rows    |-> 0,           \* sync job: rows of the list left after the current one
     missed  |-> FALSE]       \* history: a cancellation of the order was answered
                              \* 'No mapping' while this request was being served

Init ==
    /\ hgiToken = 0
    /\ hgiExpiresAt = Num(0)
    /\ authPromise = 0
    /\ now = 0
    /\ mapStore = EmptyOrders
    /\ disk = EmptyOrders
    /\ flushed = EmptyOrders
    /\ handlers = [h \in Handlers |-> Idle]
    /\ sent = {}
    /\ authInFlight = {}
    /\ authCalls = 0
    /\ createCalls = [o \in Orders |-> 0]
    /\ started = 0
    /\ orderCount = 0

\* res.status(s).send(b)
Respond(rec, s, b) == [rec EXCEPT !.pc = "done", !.status = s, !.body = b]

\* a catch block that logs and answers 200
CatchSwallows(rec, e) == [[rec EXCEPT !.pc = "done", !.status = 200, !.body = "OK"]
                            EXCEPT !.err = e]

\* the catch block of every handler: console.error, res.status(500).send('Error')
Catch(rec, e) == [Respond(rec, 500, "Error") EXCEPT !.err = e]

\* line 295: axios.post(.../DocumentosContables/Crear) is sent
SendCreate(rec, tok, id) ==
    [rec EXCEPT !.pc = "awaitCreate", !.token = tok, !.doc = id]

\* line 381: axios.put(.../DocumentosContables/Actualizar, [doc]) is sent
SendVoid(rec, tok) ==
    [rec EXCEPT !.pc = "awaitVoid", !.token = tok,
                !.voidReq = Append(@, VoidDoc(rec.mapping[1]))]

\* What a handler does once `await getHgiToken()` gives it a token:
\* lines 294-295 for the paid kinds, lines 380-381 for a cancellation.
AfterToken(rec, tok, id) ==
    IF rec.kind = "cancelled" THEN SendVoid(rec, tok) ELSE SendCreate(rec, tok, id)

\* lines 401-411: axios.get(.../Api/Productos/ObtenerLista) is sent
SendProducts(rec, tok) == [rec EXCEPT !.pc = "awaitProducts", !.token = tok]

\* lines 414-424: the loop over productos with n rows to go; each row asks
\* Shopify for its variant (line 417). After the last one, line 429 sends
\* axios.get(.../Api/Existencias/Obtener).
NextProduct(rec, n) ==
    IF n = 0 THEN [rec EXCEPT !.pc = "awaitStock", !.rows = 0]
    ELSE [rec EXCEPT !.pc = "awaitVariant", !.rows = n - 1]

\* lines 435-441, 446: the loop over existencias with n rows to go; after the
\* last one the job answers
NextStock(rec, n) ==
    IF n = 0 THEN Respond([rec EXCEPT !.rows = 0], 200, "OK sync")
    ELSE [rec EXCEPT !.pc = "awaitStockVariant", !.rows = n - 1]

\* lines 89-92 with the lock not consulted
GetTokenPathNoLock(tok, exp, t, ap) ==
    IF TokenValid(tok, exp, t) THEN "cached" ELSE "request"

\* lines 89-92: how a call of getHgiToken goes on
GetTokenPath(tok, exp, t, ap) ==
    IF TokenValid(tok, exp, t) THEN "cached"
    ELSE IF JoinsInFlight(ap) THEN "join"
    ELSE "request"

\* ------------------------------ signature ------------------------------
\* line 188: req.rawBody, the bytes of the order sent
RawBody(o, fs) == <<o, fs>>

\* lines 137-141: the HMAC-SHA256 of rawBody under SHOPIFY_SECRET, as bytes
HmacSha256(rawBody) == <<"sha256", rawBody>>

\* the headers a sender may put on an order: none, one of another length,
\* the signature of another body, the signature of this body
Headers(o, fs) ==
    {<<>>, <<"sha256">>, HmacSha256(RawBody(o, "forged")), HmacSha256(RawBody(o, fs))}

\* line 143 alone: timingSafeEqual left out
VerifyShopifyHmacLengthOnly(rawBody, headerHmac) ==
    Len(HmacSha256(rawBody)) = Len(headerHmac)

\* lines 135-149: verifyShopifyHmac
VerifyShopifyHmac(rawBody, headerHmac) ==
    LET genBuf == HmacSha256(rawBody) IN
        IF Len(genBuf) # Len(headerHmac) THEN FALSE ELSE genBuf = headerHmac

\* line 367 left out: a cancellation goes on without a mapping
CancelFindsMappingAlways(store, o) == TRUE

\* lines 366-367: const mapping = mapStore.orders[orderId]; if (!mapping) return ...
CancelFindsMapping(store, o) == o \in DOMAIN store

\* History: the requests as they are when an event of this kind for order o
\* is answered without a call. A cancellation so answered (line 368) marks
\* the paid-order requests for o that have not yet had the answer of Crear.
Overtaken(hs, kind, o) ==
    [g \in DOMAIN hs |->
        IF /\ kind = "cancelled"
           /\ hs[g].kind \in PaidKinds /\ hs[g].order = o
           /\ hs[g].pc \in {"awaitAuth", "awaitCreate"}
        THEN [hs[g] EXCEPT !.missed = TRUE]
        ELSE hs[g]]

\* number of members of S that are at most h
Rank(h, S) == Cardinality({g \in S : g <= h})

\* Whether the handler of an event goes on to getHgiToken: the paid kinds when
\* their guard and line 265 let them through, a cancellation when line 367
\* finds a mapping.
NeedsToken(kind, fs, store, o) ==
    IF kind = "cancelled" THEN CancelFindsMapping(store, o)
    ELSE CallsCreate(kind, fs, store, o) /\ ~AlreadyMapped(store, o)

\* the text of the 200 answer of a handler that makes no remote call
\* (lines 317, 332, 350, 368)
AckBody(kind, fs, store, o) ==
    CASE kind = "paid"      -> "Already processed"
      [] kind = "cancelled" -> "No mapping"
      [] OTHER              -> "OK"

\* The ERP numbers its documents; the model gives the n-th document made for
\* order o an id no other document has.
DocId(o, n) == NumOrders * (n - 1) + o

\* a handler slot that has answered
Done == [Idle EXCEPT !.pc = "done"]

\* ------------------------------ actions --------------------------------
\* An event arrives and its handler runs up to its first pending await
\* (lines 311-317, 325-332, 344-353, 361-381, with getHgiToken lines 89-129).
Webhook(h, kind, o, fs, headerHmac) ==
    /\ h = started + 1
    /\ started' = started + 1
    \* order ids are interchangeable: a new one is the next unused number
    /\ o <= orderCount + 1
    /\ orderCount' = IF o > orderCount THEN o ELSE orderCount
    /\ LET rec0 == [Idle EXCEPT !.seq = h, !.kind = kind, !.order = o, !.fs = fs,
                                !.hmac = headerHmac,
                                !.hadMap = o \in DOMAIN mapStore,
                                !.mapping = IF kind = "cancelled" /\ o \in DOMAIN mapStore
                                            THEN <<mapStore[o]>> ELSE <<>>]
           path == GetTokenPath(hgiToken, hgiExpiresAt, now, authPromise)
       IN  IF ~VerifyShopifyHmac(RawBody(o, fs), headerHmac)
           THEN \* lines 152-154: verifyWebhook answers, next() is not called
                /\ sent' = {Respond(rec0, 401, "Invalid HMAC")}
                /\ handlers' = [handlers EXCEPT ![h] = Done]
                /\ UNCHANGED <<tokenVars, createCalls>>
           ELSE IF ~NeedsToken(kind, fs, mapStore, o)
           THEN /\ sent' = {Respond(rec0, 200, AckBody(kind, fs, mapStore, o))}
                /\ handlers' = [Overtaken(handlers, kind, o) EXCEPT ![h] = Done]
                /\ UNCHANGED <<tokenVars, createCalls>>
           ELSE /\ sent' = {}
                /\ CASE path = "cached" ->
                      /\ handlers' = [handlers EXCEPT
                                        ![h] = AfterToken(rec0, hgiToken,
                                                          DocId(o, createCalls[o] + 1))]
                      /\ createCalls' = IF kind = "cancelled" THEN createCalls
                                        ELSE [createCalls EXCEPT ![o] = @ + 1]
                      /\ UNCHANGED tokenVars
                  [] path = "join" ->
                      /\ handlers' = [handlers EXCEPT
                                        ![h] = [rec0 EXCEPT !.pc = "awaitAuth",
                                                            !.joined = authPromise]]
                      /\ UNCHANGED <<tokenVars, createCalls>>
                  [] OTHER ->
                      /\ authCalls' = authCalls + 1
                      /\ authPromise' = authCalls + 1
                      /\ authInFlight' = authInFlight \cup {authCalls + 1}
                      /\ handlers' = [handlers EXCEPT
                                        ![h] = [rec0 EXCEPT !.pc = "awaitAuth",
                                                            !.joined = authCalls + 1]]
                      /\ UNCHANGED <<hgiToken, hgiExpiresAt, createCalls>>
    /\ UNCHANGED <<now, mapStore, disk, flushed>>

\* a webhook that Shopify signed with SHOPIFY_SECRET
Deliver(h, kind, o, fs) == Webhook(h, kind, o, fs, HmacSha256(RawBody(o, fs)))

\* the handlers awaiting the promise of Autenticar request p
Waiters(p) == {h \in Handlers : handlers[h].pc = "awaitAuth" /\ handlers[h].joined = p}

\* Autenticar request p is answered with a JwtToken (lines 104-125): the token
\* and its expiry are stored, the lock is released, and every handler awaiting
\* the promise goes on to its own remote call.
AuthSucceeds(p, hint) ==
    /\ p \in authInFlight
    /\ LET W  == Waiters(p)
           Wc == {h \in W : handlers[h].kind # "cancelled"}
       IN  /\ handlers' = [h \in Handlers |->
                             IF h \in W /\ handlers[h].kind = "sync"
                             THEN SendProducts(handlers[h], p)
                             ELSE IF h \in W
                             THEN AfterToken(handlers[h], p,
                                     DocId(handlers[h].order,
                                           createCalls[handlers[h].order]
                                           + Rank(h, {g \in Wc : handlers[g].order
                                                                 = handlers[h].order})))
                             ELSE handlers[h]]
           /\ createCalls' = [o \in Orders |->
                 createCalls[o] + Cardinality({h \in Wc : handlers[h].order = o})]
    /\ hgiToken' = p
    /\ hgiExpiresAt' = ExpiresAt(hint, now)
    /\ authPromise' = Finally(authPromise)
    /\ authInFlight' = authInFlight \ {p}
    /\ sent' = {}
    /\ UNCHANGED <<now, mapStore, disk, flushed, authCalls, started, orderCount>>

\* Autenticar request p fails (lines 107-116, or axios rejects): the lock is
\* released and every handler awaiting the promise catches the error.
AuthFails(p, why) ==
    /\ p \in authInFlight
    /\ handlers' = [h \in Handlers |-> IF h \in Waiters(p) THEN Done ELSE handlers[h]]
    /\ sent' = {Catch(handlers[h], why) : h \in Waiters(p)}
    /\ authPromise' = Finally(authPromise)
    /\ authInFlight' = authInFlight \ {p}
    /\ UNCHANGED <<hgiToken, hgiExpiresAt, now, mapStore, disk, flushed, authCalls,
                   createCalls, started, orderCount>>

\* lines 297-305: Crear answers 2xx; the mapping is put in mapStore and
\* saveMap hands the serialized store to writeFile.
CreateAnswers(h, parsed) ==
    /\ handlers[h].pc = "awaitCreate"
    /\ LET o == handlers[h].order
           m == BuildMapping(IF parsed THEN handlers[h].doc ELSE NullDoc)
       IN  /\ mapStore' = Put(mapStore, o, m)
           /\ handlers' = [handlers EXCEPT
                             ![h] = [@ EXCEPT !.pc = "awaitSave",
                                              !.snap = Put(mapStore, o, m)]]
    /\ sent' = {}
    /\ UNCHANGED <<tokenVars, now, disk, flushed, createCalls, started, orderCount>>

\* line 295 throws (non-2xx answer, network error, timeout)
CreateFails(h) ==
    /\ handlers[h].pc = "awaitCreate"
    /\ handlers' = [handlers EXCEPT ![h] = Done]
    /\ sent' = {Catch(handlers[h], "CreateFailed")}
    /\ UNCHANGED <<tokenVars, now, mapStore, disk, flushed, createCalls, started, orderCount>>

\* The file after writeFile ends: the data written, or what was there when
\* the write fails.
Written(ok, old, data) == IF ok THEN data ELSE old

\* lines 173-179 and 306-307, 317, 332, 353: what the handler answers after
\* saveMap; saveMap catches and logs a failed write.
AfterSave(rec, ok) ==
    Respond([rec EXCEPT !.saved = IF ok THEN "written" ELSE "failed"], 200, "OK")

\* writeFile of saveMap ends
SaveEnds(h, ok) ==
    /\ handlers[h].pc = "awaitSave"
    /\ disk' = Written(ok, disk, Stringify(handlers[h].snap))
    /\ flushed' = Written(ok, flushed, handlers[h].snap)
    /\ handlers' = [handlers EXCEPT ![h] = Done]
    /\ sent' = {AfterSave(handlers[h], ok)}
    /\ UNCHANGED <<tokenVars, now, mapStore, createCalls, started, orderCount>>

\* lines 381-388: Actualizar answers, or throws
VoidEnds(h, ok) ==
    /\ handlers[h].pc = "awaitVoid"
    /\ handlers' = [handlers EXCEPT ![h] = Done]
    /\ sent' = {IF ok THEN Respond(handlers[h], 200, "OK")
                      ELSE Catch(handlers[h], "VoidFailed")}
    /\ UNCHANGED <<tokenVars, now, mapStore, disk, flushed, createCalls, started, orderCount>>

\* ------------------------------ sync job --------------------------------
\* handler h goes on as rec, or has answered with rec
Goes(h, rec) ==
    IF rec.pc = "done"
    THEN handlers' = [handlers EXCEPT ![h] = Done] /\ sent' = {rec}
    ELSE handlers' = [handlers EXCEPT ![h] = rec] /\ sent' = {}

\* lines 392-398: GET /jobs/sync-hgi-to-shopify arrives (DRY_RUN not set) and
\* runs up to its first await that does not resolve at once
SyncJob(h) ==
    /\ h = started + 1
    /\ started' = started + 1
    /\ LET rec0 == [Idle EXCEPT !.seq = h, !.kind = "sync"]
           path == GetTokenPath(hgiToken, hgiExpiresAt, now, authPromise)
       IN  CASE path = "cached" ->
                  /\ handlers' = [handlers EXCEPT ![h] = SendProducts(rec0, hgiToken)]
                  /\ UNCHANGED tokenVars
             [] path = "join" ->
                  /\ handlers' = [handlers EXCEPT
                                    ![h] = [rec0 EXCEPT !.pc = "awaitAuth",
                                                        !.joined = authPromise]]
                  /\ UNCHANGED tokenVars
             [] OTHER ->
                  /\ authCalls' = authCalls + 1
                  /\ authPromise' = authCalls + 1
                  /\ authInFlight' = authInFlight \cup {authCalls + 1}
                  /\ handlers' = [handlers EXCEPT
                                    ![h] = [rec0 EXCEPT !.pc = "awaitAuth",
                                                        !.joined = authCalls + 1]]
                  /\ UNCHANGED <<hgiToken, hgiExpiresAt>>
    /\ sent' = {}
    /\ UNCHANGED <<now, mapStore, disk, flushed, createCalls, orderCount>>

\* lines 402-412: ObtenerLista answers with n rows that have a SKU
ProductsAnswer(h, n) ==
    /\ handlers[h].pc = "awaitProducts"
    /\ Goes(h, NextProduct(handlers[h], n))
    /\ UNCHANGED <<tokenVars, now, mapStore, disk, flushed, createCalls, started, orderCount>>

\* line 402 throws (non-2xx answer, network error, timeout of 20 s)
ProductsFails(h) ==
    /\ handlers[h].pc = "awaitProducts"
    /\ Goes(h, Catch(handlers[h], "ProductsFailed"))
    /\ UNCHANGED <<tokenVars, now, mapStore, disk, flushed, createCalls, started, orderCount>>

\* lines 429-434: Existencias/Obtener answers with n rows to set
StockAnswer(h, n) ==
    /\ handlers[h].pc = "awaitStock"
    /\ Goes(h, NextStock(handlers[h], n))
    /\ UNCHANGED <<tokenVars, now, mapStore, disk, flushed, createCalls, started, orderCount>>

\* line 429 throws: the inner catch (lines 442-444) warns and the job answers
StockFails(h) ==
    /\ handlers[h].pc = "awaitStock"
    /\ Goes(h, Respond(handlers[h], 200, "OK sync"))
    /\ UNCHANGED <<tokenVars, now, mapStore, disk, flushed, createCalls, started, orderCount>>

\* lines 39-81, 417-421, 439-440: Shopify answers the call the job awaits;
\* found says whether findVariantBySKU gave a variant to set
ShopifyAnswers(h, found) ==
    /\ handlers[h].pc \in {"awaitVariant", "awaitPrice", "awaitStockVariant", "awaitOnHand"}
    /\ LET rec == handlers[h] IN
          Goes(h, CASE rec.pc = "awaitVariant" ->
                         IF found THEN [rec EXCEPT !.pc = "awaitPrice"]
                         ELSE NextProduct(rec, rec.rows)
                    [] rec.pc = "awaitPrice" -> NextProduct(rec, rec.rows)
                    [] rec.pc = "awaitStockVariant" ->
                         IF found THEN [rec EXCEPT !.pc = "awaitOnHand"]
                         ELSE NextStock(rec, rec.rows)
                    [] OTHER -> NextStock(rec, rec.rows))
    /\ UNCHANGED <<tokenVars, now, mapStore, disk, flushed, createCalls, started, orderCount>>

\* a Shopify call throws: in the productos loop the job answers 500 (lines
\* 447-450), in the existencias loop the inner catch warns and it answers OK
ShopifyFails(h) ==
    /\ handlers[h].pc \in {"awaitVariant", "awaitPrice", "awaitStockVariant", "awaitOnHand"}
    /\ Goes(h, IF handlers[h].pc \in {"awaitVariant", "awaitPrice"}
               THEN Catch(handlers[h], "ShopifyFailed")
               ELSE Respond(handlers[h], 200, "OK sync"))
    /\ UNCHANGED <<tokenVars, now, mapStore, disk, flushed, createCalls, started, orderCount>>

\* lines 85-87, 160, 454-459: the process stops and is started again. Module
\* state is initialised anew, start() awaits loadMap() before app.listen, and
\* the requests the stopped process was serving are gone with their pending
\* calls; a writeFile that had not finished is taken not to have written.
Restart ==
    /\ mapStore' = LoadMap(disk)
    /\ hgiToken' = 0
    /\ hgiExpiresAt' = Num(0)
    /\ authPromise' = 0
    /\ authInFlight' = {}
    /\ handlers' = [h \in Handlers |->
                        IF handlers[h].pc = "idle" THEN Idle ELSE Done]
    /\ sent' = {}
    /\ UNCHANGED <<now, disk, flushed, authCalls, createCalls, started, orderCount>>

\* the clock advances
Tick ==
    /\ now < MaxTime
    /\ now' = now + 1
    /\ sent' = {}
    /\ UNCHANGED <<tokenVars, mapStore, disk, flushed, handlers, createCalls, started, orderCount>>

\* ---------------------------- specifications ---------------------------
\* events of the kinds K for the orders O arrive
Arrivals(K, O) ==
    \E h \in Handlers, k \in K, o \in O :
        \E fs \in StatusesOf(k) : Deliver(h, k, o, fs)

\* the ERP answers an Autenticar request, with an expiry hint of HS when it
\* gives a token
AuthAnswers(HS) ==
    \/ \E p \in authInFlight, hint \in HS : AuthSucceeds(p, hint)
    \/ \E p \in authInFlight, why \in AuthFailures : AuthFails(p, why)

\* the ERP answers a document request, or a write of map.json ends
RemoteAnswers ==
    \/ \E h \in Handlers, parsed \in BOOLEAN : CreateAnswers(h, parsed)
    \/ \E h \in Handlers : CreateFails(h)
    \/ \E h \in Handlers, ok \in BOOLEAN : SaveEnds(h, ok)
    \/ \E h \in Handlers, ok \in BOOLEAN : VoidEnds(h, ok)

\* the sync job is asked for
SyncArrives == \E h \in Handlers : SyncJob(h)

\* the ERP answers a list request of the sync job of handler h, or the
\* request ends with an error, at the latest by its timeout of 20 s
ListAnswers(h) ==
    \/ \E n \in 0..MaxRows : ProductsAnswer(h, n)
    \/ ProductsFails(h)
    \/ \E n \in 0..MaxRows : StockAnswer(h, n)
    \/ StockFails(h)

\* Shopify answers a call of the sync job of handler h, or the call fails
ShopifyEnds(h) ==
    \/ \E found \in BOOLEAN : ShopifyAnswers(h, found)
    \/ ShopifyFails(h)

\* The whole program: every order event, the sync job, every answer, the
\* clock, restarts.
Next ==
    \/ Arrivals(Kinds, Orders) \/ AuthAnswers(Hints) \/ RemoteAnswers \/ Tick \/ Restart
    \/ SyncArrives
    \/ \E h \in Handlers : ListAnswers(h)
    \/ \E h \in Handlers : ShopifyEnds(h)

Spec == Init /\ [][Next]_vars

\* The order handlers over a run short enough for a token to outlive it:
\* the clock stands still and the ERP sends no expiry hint.
NextOrders == Arrivals(Kinds, Orders) \/ AuthAnswers({NoHint}) \/ RemoteAnswers

SpecOrders == Init /\ [][NextOrders]_vars

\* One order over a run long enough for tokens to expire: its orders/paid
\* and orders/cancelled events, every answer, the clock.
NextClock ==
    Arrivals({"paid", "cancelled"}, {1}) \/ AuthAnswers(Hints) \/ RemoteAnswers \/ Tick

SpecClock == Init /\ [][NextClock]_vars

\* Paid orders with restarts of the process: no clock, no cancellations.
NextRestart ==
    \/ Arrivals({"paid"}, Orders)
    \/ AuthAnswers({NoHint})
    \/ \E h \in Handlers, parsed \in BOOLEAN : CreateAnswers(h, parsed)
    \/ \E h \in Handlers : CreateFails(h)
    \/ \E h \in Handlers, ok \in BOOLEAN : SaveEnds(h, ok)
    \/ Restart

SpecRestart == Init /\ [][NextRestart]_vars

\* Order events with any X-Shopify-Hmac-Sha256 header: no clock.
NextWebhook ==
    \/ \E h \in Handlers, k \in Kinds, o \in Orders :
          \E fs \in StatusesOf(k) :
              \E hm \in Headers(o, fs) : Webhook(h, k, o, fs, hm)
    \/ AuthAnswers({NoHint})
    \/ RemoteAnswers

SpecWebhook == Init /\ [][NextWebhook]_vars

\* Paid orders when every writeFile of map.json succeeds: no clock.
NextWrites ==
    \/ Arrivals({"paid"}, Orders)
    \/ AuthAnswers({NoHint})
    \/ \E h \in Handlers, parsed \in BOOLEAN : CreateAnswers(h, parsed)
    \/ \E h \in Handlers : CreateFails(h)
    \/ \E h \in Handlers : SaveEnds(h, TRUE)

SpecWrites == Init /\ [][NextWrites]_vars

\* a call of handler h that carries timeout: 20_000 ends (lines 295, 381,
\* 402, 429), or its writeFile does
TimedCallEnds(h) ==
    \/ \E parsed \in BOOLEAN : CreateAnswers(h, parsed)
    \/ CreateFails(h)
    \/ \E ok \in BOOLEAN : SaveEnds(h, ok)
    \/ \E ok \in BOOLEAN : VoidEnds(h, ok)
    \/ ListAnswers(h)

\* Paid orders and cancellations of one order and sync jobs, no clock. Every
\* call that has a timeout ends: Autenticar (line 103) and the calls of
\* TimedCallEnds. The calls of the shopify client (lines 33-36) have none,
\* so nothing makes them end.
NextLive ==
    \/ Arrivals({"paid", "cancelled"}, {1})
    \/ SyncArrives
    \/ AuthAnswers({NoHint})
    \/ \E h \in Handlers : TimedCallEnds(h)
    \/ \E h \in Handlers : ShopifyEnds(h)

SpecLive ==
    /\ Init /\ [][NextLive]_vars
    /\ WF_vars(AuthAnswers({NoHint}))
    /\ \A h \in Handlers : WF_vars(TimedCallEnds(h))

\* ============================== properties ==============================
\* the requests being served
InFlight == {h \in Handlers : handlers[h].pc \notin {"idle", "done"}}

\* the Crear requests for order o that are awaiting their answer
CreatesInFlight(o) ==
    {h \in Handlers : handlers[h].pc = "awaitCreate" /\ handlers[h].order = o}

\* ------------------------------------------------------------------------
\* C1: for every order, however its paid events interleave, exactly one
\* DocumentosContables/Crear request is made: no second request is sent while
\* one is awaiting its answer or after one has answered and left its mapping.
ExactlyOneCreatePerOrder ==
    \A o \in Orders :
        Cardinality(CreatesInFlight(o)) + (IF o \in DOMAIN mapStore THEN 1 ELSE 0) <= 1

\* ------------------------------------------------------------------------
\* C2: while no credential exists, every caller awaiting getHgiToken awaits
\* the one Autenticar request in flight, and when that request gives the
\* first token every one of them receives that token.
SingleFlightFirstToken ==
    [][hgiToken = 0 =>
         /\ \A h \in Handlers :
               handlers'[h].pc = "awaitAuth" => authInFlight' = {handlers'[h].joined}
         /\ hgiToken' # 0 =>
               \A h \in Handlers :
                   handlers[h].pc = "awaitAuth" =>
                       /\ handlers'[h].pc \in {"awaitCreate", "awaitVoid"}
                       /\ handlers'[h].token = hgiToken']_vars

\* two callers joined the first Autenticar request and both hold its token
TwoCallersShareFirstToken ==
    /\ authCalls = 1
    /\ \E h1, h2 \in Handlers :
          /\ h1 # h2
          /\ handlers[h1].joined = 1 /\ handlers[h1].token = 1
          /\ handlers[h2].joined = 1 /\ handlers[h2].token = 1

\* ------------------------------------------------------------------------
\* C3: at most one Autenticar request is outstanding; while one is, the cached
\* token is not valid, so a caller that arrives awaits it; every caller that
\* awaits, awaits the outstanding request, and gets its result: its token, or
\* its error together with every other caller that awaited it.
AtMostOneRefresh ==
    /\ Cardinality(authInFlight) <= 1
    /\ authInFlight # {} =>
          (hgiToken = 0 \/ hgiExpiresAt.nan \/ hgiExpiresAt.v <= now)
    /\ \A h \in Handlers :
          handlers[h].pc = "awaitAuth" => handlers[h].joined \in authInFlight
    /\ \A h \in InFlight :
          handlers[h].pc # "awaitAuth" /\ handlers[h].joined # 0 =>
              handlers[h].token = handlers[h].joined
    /\ \A r1, r2 \in sent :
          r1.err \in AuthFailures /\ r2.err \in AuthFailures =>
              r1.err = r2.err /\ r1.joined = r2.joined

\* two callers awaited the same Autenticar request and got its error
TwoCallersShareFailure ==
    \E r1, r2 \in sent :
        r1 # r2 /\ r1.err \in AuthFailures /\ r2.err = r1.err /\ r2.joined = r1.joined

\* ------------------------------------------------------------------------
\* C4: a handler that calls getHgiToken when there is no token, or when the
\* current time is not earlier than hgiExpiresAt, gets no token from the
\* cache: it awaits the request in flight or sends a new Autenticar request.
NoExpiredTokenFromCache ==
    [][\A h \in Handlers :
          /\ handlers[h].pc = "idle"
          /\ handlers'[h].pc \notin {"idle", "done"}
          /\ (hgiToken = 0 \/ hgiExpiresAt.nan \/ hgiExpiresAt.v <= now)
          => /\ handlers'[h].pc = "awaitAuth"
             /\ handlers'[h].token = 0
             /\ \/ authPromise # 0 /\ handlers'[h].joined = authPromise
                                  /\ authCalls' = authCalls
                \/ authPromise = 0 /\ authCalls' = authCalls + 1
                                  /\ handlers'[h].joined = authCalls'
                                  /\ handlers'[h].joined \in authInFlight']_vars

\* a caller awaits a new Autenticar request while an expired token is stored
RefreshOfExpiredToken ==
    /\ hgiToken # 0
    /\ ~hgiExpiresAt.nan /\ hgiExpiresAt.v <= now
    /\ \E h \in Handlers :
          handlers[h].pc = "awaitAuth" /\ handlers[h].joined = authCalls
                                       /\ authCalls > hgiToken

\* ------------------------------------------------------------------------
\* C5: when an Autenticar request fails, authPromise is null again, every
\* caller that awaited it has answered with that same error and none is left
\* waiting, no other Autenticar request has been sent, and the next call of
\* getHgiToken sends one.
FailedRefreshReleasesLock ==
    \A r \in sent :
        r.err \in AuthFailures =>
            /\ authPromise = 0
            /\ authInFlight = {}
            /\ authCalls = r.joined
            /\ \A r2 \in sent : r2.err = r.err /\ r2.status = 500
            /\ \A h \in Handlers : handlers[h].pc # "awaitAuth"
            /\ GetTokenPath(hgiToken, hgiExpiresAt, now, authPromise) = "request"

\* the first Autenticar request failed and a later caller has sent a second
RetryAfterFailedRefresh ==
    /\ hgiToken = 0
    /\ authCalls = 2
    /\ authInFlight = {2}
    /\ authPromise = 2

\* ------------------------------------------------------------------------
\* C6: once an order has a mapping, no step changes or removes it.
MappingNeverChanges ==
    [][\A o \in DOMAIN mapStore :
          o \in DOMAIN mapStore' /\ mapStore'[o] = mapStore[o]]_vars

\* ------------------------------------------------------------------------
\* C7: an orders/paid, orders/create or orders/updated event that arrives for
\* an order already mapped is answered 200 in the same step, which sends no
\* Autenticar and no Crear request and leaves mapStore and map.json as they
\* were; no such event is left waiting for a remote call.
MappedOrderIsNoOp ==
    [][started' # started =>
         /\ \A r \in sent' :
               r.kind \in PaidKinds /\ r.order \in DOMAIN mapStore =>
                   /\ r.status = 200
                   /\ r.token = 0 /\ r.joined = 0 /\ r.doc = 0
                   /\ authCalls' = authCalls
                   /\ authInFlight' = authInFlight
                   /\ createCalls' = createCalls
                   /\ mapStore' = mapStore
                   /\ disk' = disk
         /\ LET rec == handlers'[started'] IN
               rec.kind \in PaidKinds /\ rec.pc # "done" =>
                   rec.order \notin DOMAIN mapStore]_vars

\* a paid orders/create event for a mapped order has just been answered 200
PaidCreateForMappedOrder ==
    \E r \in sent :
        /\ r.kind = "create" /\ r.fs = "paid" /\ r.hadMap
        /\ r.status = 200 /\ r.order \in DOMAIN mapStore

\* ------------------------------------------------------------------------
\* C8: the step in which a paid-order handler fails, on getHgiToken or on
\* Crear, answers 500 and leaves mapStore and map.json as they were; and a
\* paid event that arrives for an order without mapping is never answered
\* without a Crear request: it waits for the token or has sent the request.
FailedCreateStoresNothing ==
    [][/\ \A r \in sent' :
             r.kind \in PaidKinds /\ r.err # "" =>
                 /\ r.status = 500
                 /\ r.saved = "" /\ r.snap = EmptyOrders
                 /\ mapStore' = mapStore
                 /\ disk' = disk
       /\ started' # started =>
             /\ \A r \in sent' :
                   r.kind \in PaidKinds /\ r.order \notin DOMAIN mapStore =>
                       r.fs = "pending"
             /\ LET rec == handlers'[started'] IN
                   rec.kind \in PaidKinds /\ rec.pc # "done" =>
                       \/ rec.pc = "awaitAuth" /\ createCalls' = createCalls
                       \/ /\ rec.pc = "awaitCreate"
                          /\ createCalls'[rec.order] = createCalls[rec.order] + 1]_vars

\* the first Crear request for an order failed and a redelivered event has
\* sent a second one
RedeliveryCreatesAgain ==
    /\ handlers[1].pc = "done"
    /\ handlers[2].pc = "awaitCreate"
    /\ createCalls[handlers[2].order] = 2
    /\ handlers[2].order \notin DOMAIN mapStore
    /\ \A o \in Orders : o # handlers[2].order => createCalls[o] = 0

\* ------------------------------------------------------------------------
\* C9: a paid-order handler that created a document answers 200 only when the
\* mapping of its order is in map.json.
AckOnlyAfterDurableWrite ==
    \A r \in sent :
        r.kind \in PaidKinds /\ r.status = 200 /\ r.doc # 0 => r.order \in DOMAIN disk

\* ------------------------------------------------------------------------
\* C10 as stated: a cancellation for a mapped order sends exactly one
\* Actualizar request, with the mapping it read and Estado 2.
CancelSendsExactlyOneVoid ==
    \A r \in sent :
        r.kind = "cancelled" /\ r.hadMap =>
            /\ Len(r.voidReq) = 1
            /\ r.voidReq[1] = [Empresa |-> r.mapping[1].empresa,
                               IdComprobante |-> r.mapping[1].comprobante,
                               Documento |-> r.mapping[1].documento,
                               Estado |-> 2]

\* the Actualizar document that voids mapping m
VoidOf(m) ==
    [Empresa |-> m.empresa, IdComprobante |-> m.comprobante,
     Documento |-> m.documento, Estado |-> 2]

\* C10 amended: a cancellation for a mapped order sends no Actualizar request
\* while it waits for its token and none at all when getHgiToken fails (it
\* then answers 500); once it has a token it has sent exactly one, with
\* Estado 2 and the empresa, comprobante and documento of the mapping it read
\* when it arrived; it answers 200 when that request succeeds and 500 when it
\* fails; and no step of a cancellation changes mapStore or map.json.
CancelSendsAtMostOneVoid ==
    /\ [](\A h \in InFlight :
            handlers[h].kind = "cancelled" =>
                /\ handlers[h].hadMap /\ Len(handlers[h].mapping) = 1
                /\ handlers[h].pc \in {"awaitAuth", "awaitVoid"}
                /\ handlers[h].pc = "awaitAuth" => handlers[h].voidReq = <<>>
                /\ handlers[h].pc = "awaitVoid" =>
                       handlers[h].voidReq = <<VoidOf(handlers[h].mapping[1])>>)
    /\ [](\A r \in sent :
            r.kind = "cancelled" /\ r.hadMap =>
                IF r.err \in AuthFailures
                THEN r.voidReq = <<>> /\ r.status = 500
                ELSE /\ r.voidReq = <<VoidOf(r.mapping[1])>>
                     /\ r.status = IF r.err = "" THEN 200 ELSE 500)
    /\ [][(\/ \E r \in sent' : r.kind = "cancelled"
           \/ \E h \in Handlers : handlers'[h].kind = "cancelled"
                                   /\ handlers'[h] # handlers[h])
          => mapStore' = mapStore /\ disk' = disk]_vars

\* a cancellation's Actualizar request has failed: it answered 500 and the
\* mapping it read is still the one stored
FailedVoidKeepsMapping ==
    \E r \in sent :
        /\ r.kind = "cancelled" /\ r.err = "VoidFailed" /\ r.status = 500
        /\ Len(r.voidReq) = 1
        /\ r.order \in DOMAIN mapStore /\ mapStore[r.order] = r.mapping[1]


\* ------------------------------------------------------------------------
\* C11: an orders/cancelled event that arrives for an order without mapping
\* is answered 200 in the same step, which sends no Autenticar, no Crear and
\* no Actualizar request and leaves mapStore and map.json as they were; no
\* such event is left waiting for a remote call.
UnmappedCancelIsNoOp ==
    [][started' # started =>
         /\ \A r \in sent' :
               r.kind = "cancelled" /\ r.order \notin DOMAIN mapStore =>
                   /\ r.status = 200
                   /\ r.token = 0 /\ r.joined = 0 /\ r.voidReq = <<>>
                   /\ authCalls' = authCalls
                   /\ authInFlight' = authInFlight
                   /\ createCalls' = createCalls
                   /\ mapStore' = mapStore
                   /\ disk' = disk
         /\ LET rec == handlers'[started'] IN
               rec.kind = "cancelled" /\ rec.pc # "done" =>
                   rec.order \in DOMAIN mapStore]_vars

\* a cancellation for an order without mapping has just been answered 200
CancelOfUnmappedOrder ==
    \E r \in sent :
        /\ r.kind = "cancelled" /\ ~r.hadMap /\ r.order \notin DOMAIN mapStore
        /\ r.status = 200 /\ r.body = "No mapping"


BadSignatureIsRejected ==
    [][started' # started =>
         /\ \A r \in sent' :
               r.hmac # HmacSha256(RawBody(r.order, r.fs)) =>
                   /\ r.status = 401
                   /\ r.token = 0 /\ r.joined = 0 /\ r.voidReq = <<>>
                   /\ authCalls' = authCalls
                   /\ authInFlight' = authInFlight
                   /\ authPromise' = authPromise
                   /\ hgiToken' = hgiToken
                   /\ createCalls' = createCalls
                   /\ mapStore' = mapStore
                   /\ disk' = disk
         /\ LET rec == handlers'[started'] IN
               rec.pc # "done" => rec.hmac = HmacSha256(RawBody(rec.order, rec.fs))]_vars

\* a paid event for an unmapped order, signed for another body, has just
\* been answered 401
ForgedPaidEventRejected ==
    \E r \in sent :
        /\ r.kind = "paid" /\ r.fs = "paid" /\ r.order \notin DOMAIN mapStore
        /\ r.hmac = HmacSha256(RawBody(r.order, "forged"))
        /\ r.status = 401 /\ r.body = "Invalid HMAC"


\* ------------------------------------------------------------------------
\* the request of the event that has just arrived: in sent when answered in
\* the arrival step, else in its handler slot
Arrived(hs, answered, n) == answered \cup {hs[n]}

\* C14 as stated: an orders/create or orders/updated event goes on to create
\* a document if and only if its financial_status is "paid" and its order is
\* not mapped; with any other financial_status it is answered 200 in the
\* arrival step, without a request to the ERP and without a change of
\* mapStore or map.json.
CreatesIffStatusIsPaid ==
    [][started' # started =>
         \A r \in Arrived(handlers', sent', started') :
             r.kind \in {"create", "updated"} =>
                 /\ r.pc # "done" <=>
                        r.fs = "paid" /\ r.order \notin DOMAIN mapStore
                 /\ r.fs # "paid" =>
                        /\ r.status = 200
                        /\ authCalls' = authCalls /\ createCalls' = createCalls
                        /\ mapStore' = mapStore /\ disk' = disk]_vars

\* the spellings of paid among the statuses delivered
PaidInAnyCase == {"paid", "PAID"}

\* C14, amended: the same with "paid" compared without regard to letter case.
CreatesIffStatusIsPaidInAnyCase ==
    [][started' # started =>
         \A r \in Arrived(handlers', sent', started') :
             r.kind \in {"create", "updated"} =>
                 /\ r.pc # "done" <=>
                        r.fs \in PaidInAnyCase /\ r.order \notin DOMAIN mapStore
                 /\ r.fs \notin PaidInAnyCase =>
                        /\ r.status = 200
                        /\ authCalls' = authCalls /\ createCalls' = createCalls
                        /\ mapStore' = mapStore /\ disk' = disk]_vars

\* an orders/updated event with financial_status "PAID" has sent a Crear
\* request for its order
UpperCasePaidCreates ==
    \E h \in Handlers :
        /\ handlers[h].kind = "updated" /\ handlers[h].fs = "PAID"
        /\ handlers[h].pc = "awaitCreate"
        /\ createCalls[handlers[h].order] > 0


\* ------------------------------------------------------------------------
\* C15: whenever no request is being served, map.json holds every entry of
\* mapStore.orders: the same order ids with the same mappings.
NoLostUpdateOnDisk ==
    InFlight = {} =>
        \A o \in DOMAIN mapStore :
            o \in DOMAIN disk /\ LoadMap(disk)[o] = mapStore[o]


\* ------------------------------------------------------------------------
\* C16: the step in which Crear answers stores a mapping for the order that
\* has a documento field, null when the answer gave no id; and an event of a
\* paid-order handler that arrives for an order whose mapping has a null
\* documento is answered 200 in the arrival step, without a Crear or an
\* Autenticar request and without a change of mapStore.
NullDocumentMappingIsKept ==
    [][/\ \A h \in Handlers :
             handlers[h].pc = "awaitCreate" /\ handlers'[h].pc = "awaitSave" =>
                 LET o == handlers[h].order IN
                     /\ o \in DOMAIN mapStore'
                     /\ DOMAIN mapStore'[o] = {"empresa", "comprobante", "documento"}
                     /\ mapStore'[o].documento \in {NullDoc, handlers[h].doc}
       /\ started' # started =>
             \A r \in Arrived(handlers', sent', started') :
                 /\ r.kind \in PaidKinds
                 /\ r.order \in DOMAIN mapStore
                 /\ mapStore[r.order].documento = NullDoc
                 => /\ r.pc = "done" /\ r.status = 200
                    /\ r.token = 0 /\ r.joined = 0
                    /\ createCalls' = createCalls
                    /\ authCalls' = authCalls
                    /\ mapStore' = mapStore]_vars

\* the one Crear request made for an order gave no id, its mapping has a
\* null documento, and an orders/paid event for it has just been answered
\* 'Already processed'
PaidAfterNullDocument ==
    \E r \in sent :
        /\ r.kind = "paid" /\ r.status = 200 /\ r.body = "Already processed"
        /\ r.order \in DOMAIN mapStore
        /\ mapStore[r.order].documento = NullDoc
        /\ createCalls[r.order] = 1


\* ------------------------------------------------------------------------
\* C17: the step that stores a new token sets hgiExpiresAt to
\* max(hinted expiry - 60 s, now + 2 min), the hinted expiry being
\* now + 10 min without a hint; after that step hgiExpiresAt is a time later
\* than now, at least 2 min away, and a call of getHgiToken is served from
\* the cache.
FreshTokenIsServedFromCache ==
    [][hgiToken' # hgiToken /\ hgiToken' # 0 =>
          /\ \E hint \in Hints : hgiExpiresAt' = ExpiresAt(hint, now)
          /\ ~hgiExpiresAt'.nan
          /\ hgiExpiresAt'.v > now'
          /\ hgiExpiresAt'.v >= now + MinValidity
          /\ GetTokenPath(hgiToken', hgiExpiresAt', now', authPromise') = "cached"]_vars


\* ------------------------------------------------------------------------
\* C18: every handler that awaits getHgiToken gets a token or an error,
\* authPromise goes back to null whenever it is set, and every request
\* being served is answered.
EveryRequestIsAnswered ==
    /\ \A h \in Handlers :
          (handlers[h].pc = "awaitAuth") ~> (handlers[h].pc # "awaitAuth")
    /\ (authPromise # 0) ~> (authPromise = 0)
    /\ \A h \in Handlers :
          (handlers[h].pc \notin {"idle", "done"}) ~> (handlers[h].pc = "done")


\* ------------------------------------------------------------------------
\* C19: no request of a paid-order handler that was being served when a
\* cancellation of its order was answered 'No mapping' has had a document
\* created by Crear (it is then awaiting the write of its mapping).
NoDocumentBehindNoMappingAck ==
    \A h \in Handlers :
        handlers[h].kind \in PaidKinds /\ handlers[h].missed =>
            handlers[h].pc # "awaitSave"

====
